---------------------------- MODULE Spec2Model ----------------------------
(***************************************************************************)
(* A model of axum-idempotent: the IdempotentOptions builder               *)
(* (src/src/config.rs) and the request path of IdempotentService::call     *)
(* (src/src/lib.rs), run by several concurrent requests against one        *)
(* session store whose fields expire.                                      *)
(*                                                                         *)
(* The session store (crate ruts) and the downstream handler are the       *)
(* environment: a store read or write may fail, a stored value may be      *)
(* damaged, the handler may answer anything in HandlerResults.             *)
(*                                                                         *)
(* Spec runs the service in hashing mode and in direct-key mode,           *)
(* FingerprintSpec runs it under the options of the fingerprint tests, and *)
(* BuilderSpec is the builder alone: every sequence of builder calls.      *)
(***************************************************************************)
EXTENDS Naturals, Sequences, FiniteSets

(***************************************************************************)
(* Bounds of the model.                                                    *)
(***************************************************************************)
\* the value given to expire_after, in ticks of the store's clock
CacheTtl == 2

(***************************************************************************)
(* Option<T>: None is the empty sequence, Some(x) the sequence <<x>>.      *)
(***************************************************************************)
None == << >>
Some(x) == << x >>
IsSome(o) == Len(o) = 1
Unwrap(o) == o[1]

(***************************************************************************)
(* IdempotentOptions (config.rs).  A HeaderMap or a set of headers is a    *)
(* set of <<name, value>> pairs.                                           *)
(***************************************************************************)
DefaultIgnoredHeaders ==
    { "user-agent", "accept", "accept-encoding", "accept-language",
      "cache-control", "connection", "cookie", "host", "pragma", "referer",
      "sec-fetch-dest", "sec-fetch-mode", "sec-fetch-site", "sec-ch-ua",
      "sec-ch-ua-mobile", "sec-ch-ua-platform" }

DefaultIgnoredStatusCodes == { 502, 400, 403, 504, 500, 408, 503, 429, 401 }

Default ==
    [ use_idempotency_key      |-> FALSE,
      idempotency_key_header   |-> "idempotency-key",
      replay_header_name       |-> "idempotency-replayed",
      body_cache_ttl_secs      |-> 60 * 5,
      ignore_body              |-> FALSE,
      ignored_req_headers      |-> DefaultIgnoredHeaders,
      ignored_header_values    |-> {},
      ignored_res_status_codes |-> DefaultIgnoredStatusCodes,
      ignore_all_headers       |-> FALSE ]

new(body_cache_ttl_secs) ==
    [Default EXCEPT !.body_cache_ttl_secs = body_cache_ttl_secs]

expire_after(self, seconds) == [self EXCEPT !.body_cache_ttl_secs = seconds]

\* mutant: the flag is not assigned
ignore_body_dropped(self, ignore) == self

ignore_body(self, ignore) == [self EXCEPT !.ignore_body = ignore]

\* mutant: the name is not added to the set
ignore_header_forgotten(self, name) == self

ignore_header(self, name) ==
    [self EXCEPT !.ignored_req_headers = @ \cup {name}]

\* mutant: the header is ignored by name, whatever its value
ignore_header_with_value_by_name(self, name, value) ==
    [self EXCEPT !.ignored_req_headers = @ \cup {name}]

ignore_header_with_value(self, name, value) ==
    [self EXCEPT !.ignored_header_values =
        {p \in @ : p[1] # name} \cup {<<name, value>>}]

ignore_all_headers(self) == [self EXCEPT !.ignore_all_headers = TRUE]

ignore_response_status_code(self, status_code) ==
    [self EXCEPT !.ignored_res_status_codes = @ \cup {status_code}]

\* header_name is an Option<&str>
use_idempotency_key_header(self, header_name) ==
    [self EXCEPT !.ignore_all_headers = TRUE,
                 !.ignore_body = TRUE,
                 !.use_idempotency_key = TRUE,
                 !.idempotency_key_header =
                     IF IsSome(header_name) THEN Unwrap(header_name) ELSE @]

replay_header_name(self, name) == [self EXCEPT !.replay_header_name = name]

(***************************************************************************)
(* The configurations the service is run under: hashing mode, as in        *)
(* test_basic_idempotency_with_hashing, and direct-key mode, as in         *)
(* test_idempotency_key_header_mode.                                       *)
(***************************************************************************)
HashingConfig == expire_after(Default, CacheTtl)

DirectKeyConfig ==
    expire_after(use_idempotency_key_header(Default, Some("idempotency-key")),
                 CacheTtl)

Configs == { HashingConfig, DirectKeyConfig }

(***************************************************************************)
(* The configurations of the fingerprint tests: test_ignore_header_mode,   *)
(* test_ignore_body_mode, and one that ignores x-request-id only when its  *)
(* value is 123.                                                           *)
(***************************************************************************)
IgnoreHeaderConfig ==
    expire_after(ignore_header(Default, "x-request-id"), CacheTtl)

IgnoreBodyConfig == expire_after(ignore_body(Default, TRUE), CacheTtl)

IgnoreValueConfig ==
    expire_after(ignore_header_with_value(Default, "x-request-id", "123"),
                 CacheTtl)

FingerprintConfigs ==
    { IgnoreHeaderConfig, IgnoreBodyConfig, IgnoreValueConfig }

(***************************************************************************)
(* Requests.                                                               *)
(***************************************************************************)
Sessions == { "s1", "s2" }
\* the outcome of a failed extraction of Session<T>
NoSession == "no-session"

Request(key, body) ==
    [ method  |-> "POST",
      uri     |-> "/test",
      headers |-> {<<"idempotency-key", k>> : k \in key}
                    \cup {<<"user-agent", "curl">>},
      body    |-> body ]

Requests ==
    { Request({"key-1"}, "body A"), Request({"key-1"}, "body B"),
      Request({"key-2"}, "body A"), Request({}, "body A") }

\* the requests of the fingerprint tests: no key header, and an x-request-id
\* header that is absent or has one of two values
Tagged(id, body) ==
    [ Request({}, body) EXCEPT !.headers =
        @ \cup {<<"x-request-id", v>> : v \in id} ]

TaggedRequests ==
    { Tagged({}, "body A"), Tagged({"123"}, "body A"),
      Tagged({"456"}, "body A"), Tagged({"123"}, "body B") }

\* the requests sent to a layer built with cfg: those of its tests
Incoming(cfg) ==
    IF cfg \in FingerprintConfigs THEN TaggedRequests ELSE Requests

NoRequest == [ method |-> "", uri |-> "", headers |-> {}, body |-> "" ]

HeaderValues(headers, name) == { p[2] : p \in {q \in headers : q[1] = name} }

HeaderGet(headers, name) ==
    IF HeaderValues(headers, name) = {} THEN None
    ELSE Some(CHOOSE v \in HeaderValues(headers, name) : TRUE)


(***************************************************************************)
(* Responses and handler results.  A Result is Ok(response) or Err.        *)
(***************************************************************************)
Response(status, headers, body) ==
    [ status |-> status, headers |-> headers, body |-> body ]

NoResponse == Response(0, {}, "")

Ok(res) == [ ok |-> TRUE, res |-> res ]
Err == [ ok |-> FALSE, res |-> NoResponse ]

\* What the downstream service may answer: two different cacheable
\* responses, two with an ignored status, and an error.  The inner service
\* is any service (a proxy, or this layer applied a second time), so a
\* response of its own may carry a header with the replay header's name.
HandlerResponses ==
    { Response(200, {<<"content-type", "text/plain">>}, "Response #0"),
      Response(200, {<<"idempotency-replayed", "false">>}, "Response #1"),
      Response(500, {}, "Internal Server Error"),
      Response(500, {<<"idempotency-replayed", "true">>}, "Bad Gateway") }

HandlerResults == { Ok(res) : res \in HandlerResponses } \cup { Err }

(***************************************************************************)
(* utils.rs: hash_request, response_to_bytes, bytes_to_response.           *)
(***************************************************************************)
\* the headers that take part in the hash
SurvivingHeaders(headers, cfg) ==
    IF cfg.ignore_all_headers THEN {}
    ELSE { p \in headers :
             /\ p[1] \notin cfg.ignored_req_headers
             /\ p \notin cfg.ignored_header_values }

\* method, path, surviving headers in name order (a set of pairs stands for
\* the sorted list), then the body unless it is ignored
Canonical(req, cfg) ==
    << req.method, req.uri, SurvivingHeaders(req.headers, cfg),
       IF cfg.ignore_body THEN None ELSE Some(req.body) >>

\* a digest: fixed length, and taken to be free of collisions
Digest(canonical) == << "digest", canonical >>

\* (Request, Option<String>): the request is handed back whole
hash_request(req, cfg) ==
    [ req  |-> req,
      hash |-> IF cfg.use_idempotency_key
               THEN HeaderGet(req.headers, cfg.idempotency_key_header)
               ELSE Some(Digest(Canonical(req, cfg))) ]

\* the stored bytes of a response: status, headers, body
Encode(res) == << res.status, res.headers, res.body >>

\* (Response, Vec<u8>): the response rebuilt around its buffered body
response_to_bytes(res) == [ res |-> res, bytes |-> Encode(res) ]

\* Result<Response, _>: malformed bytes are an error
bytes_to_response(bytes) ==
    IF Len(bytes) = 3 THEN Ok(Response(bytes[1], bytes[2], bytes[3])) ELSE Err

\* what damage to a stored value leaves of it
Damaged(bytes) == SubSeq(bytes, 1, 1)

(***************************************************************************)
(* State.                                                                  *)
(***************************************************************************)
VARIABLES
    config,   \* the IdempotentOptions of the layer
    store,    \* the session store: <<session, field>> -> [bytes, ttl]
    rq        \* the requests: rq[i] is the state of the future of call i

vars == << config, store, rq >>

\* the calls of the service: two requests, which may overlap or follow one
\* another, numbered in the order they arrive
Reqs == { 1, 2 }

\* a field is readable until its ttl has run out
Live(e) == e.ttl > 0

IdleRequest ==
    [ pc      |-> "idle",     \* idle, lookup, call, forward, update, done
      req     |-> NoRequest,  \* the request received
      session |-> NoSession,  \* the session extracted
      hash    |-> None,       \* the fingerprint
      recv    |-> NoRequest,  \* the request as it came in
      after   |-> {},         \* the requests that had returned when it came
      atStart |-> None,       \* the live bytes of the field when it came
      got     |-> "none",     \* session.get: none, ok, error
      held    |-> None,       \* the live bytes of the field when it was read
      stale   |-> FALSE,      \* the field had expired when it was read
      lookup  |-> "none",     \* none, hit, miss, error
      invoked |-> 0,          \* calls of the inner service
      passed  |-> NoRequest,  \* the request given to the inner service
      hres    |-> Err,        \* what the inner service returned
      res     |-> NoResponse, \* the response held across the store write
      bytes   |-> << >>,      \* the bytes to store
      wrote   |-> "none",     \* none, ok, error
      over    |-> None,       \* the live bytes of the field when it was written
      wttl    |-> 0,          \* the ttl given to the store write
      ret     |-> Err ]       \* what call returned

Init ==
    /\ config \in Configs
    /\ store = << >>
    /\ rq = [ i \in Reqs |-> IdleRequest ]

(***************************************************************************)
(* The session store, as call uses it.  A Result<Option<T>, _> is          *)
(* OkOpt(option) or ErrOpt.                                                *)
(***************************************************************************)
OkOpt(o) == [ ok |-> TRUE, val |-> o ]
ErrOpt == [ ok |-> FALSE, val |-> None ]

\* what the field holds for a reader: its bytes while it is live
Held(st, session, field) ==
    IF <<session, field>> \in DOMAIN st /\ Live(st[<<session, field>>])
    THEN Some(st[<<session, field>>].bytes) ELSE None

\* the field was written and its ttl has run out
Expired(st, session, field) ==
    <<session, field>> \in DOMAIN st /\ ~Live(st[<<session, field>>])

\* mutant: the field is read from whichever session holds it
SessionGetAnySession(st, session, field, fails) ==
    IF fails THEN ErrOpt
    ELSE IF \E k \in DOMAIN st : k[2] = field /\ Live(st[k])
         THEN OkOpt(Some(st[CHOOSE k \in DOMAIN st :
                                k[2] = field /\ Live(st[k])].bytes))
         ELSE OkOpt(None)

\* session.get::<Vec<u8>>(hash): the read fails, or gives what the field holds
SessionGet(st, session, field, fails) ==
    IF fails THEN ErrOpt ELSE OkOpt(Held(st, session, field))

\* session.update(&hash, &response_bytes, Some(ttl)): a whole-value put
SessionUpdate(st, session, field, bytes, ttl) ==
    [ k \in DOMAIN st \cup { <<session, field>> } |->
        IF k = <<session, field>>
        THEN [ bytes |-> bytes, ttl |-> ttl ] ELSE st[k] ]

(***************************************************************************)
(* lib.rs: check_cached_response and the steps of the future that          *)
(* IdempotentService::call returns.                                        *)
(***************************************************************************)
\* got is the result of session.get
check_cached_response(got) ==
    IF ~got.ok THEN ErrOpt
    ELSE IF IsSome(got.val)
         THEN LET response == bytes_to_response(Unwrap(got.val))
              IN  IF response.ok THEN OkOpt(Some(response.res)) ELSE ErrOpt
         ELSE OkOpt(None)

\* mutant: the header is appended to those of that name, not set
MarkReplayedAppended(res, cfg) ==
    [ res EXCEPT !.headers = @ \cup { <<cfg.replay_header_name, "true">> } ]

\* mutant: the replay header takes the place of the response's headers
MarkReplayedOnly(res, cfg) ==
    [ res EXCEPT !.headers = { <<cfg.replay_header_name, "true">> } ]

\* res.headers_mut().insert(config.replay_header_name, "true")
MarkReplayed(res, cfg) ==
    [ res EXCEPT !.headers =
        { p \in @ : p[1] # cfg.replay_header_name }
            \cup { <<cfg.replay_header_name, "true">> } ]

\* mutant: every status is cached
IsCacheableAlways(status_code, cfg) == TRUE

\* !config.ignored_res_status_codes.contains(&status_code)
IsCacheable(status_code, cfg) ==
    status_code \notin cfg.ignored_res_status_codes

\* mutant: the default ttl is written, whatever expire_after set
WriteTtlDefault(cfg) == Default.body_cache_ttl_secs

\* the ttl of the store write
WriteTtl(cfg) == cfg.body_cache_ttl_secs

\* mutant: the request is hashed in direct-key mode too
AfterExtractAlwaysHashed(r, req, session, cfg) ==
    IF session = NoSession
    THEN [ r EXCEPT !.pc = "forward", !.req = req ]
    ELSE [ r EXCEPT !.pc = "lookup",
                    !.req = req,
                    !.session = session,
                    !.hash = Some(Digest(Canonical(req, cfg))) ]

\* mutant: a request without a fingerprint is refused with an error
AfterExtractRequiresKey(r, req, session, cfg) ==
    IF session = NoSession
    THEN [ r EXCEPT !.pc = "forward", !.req = req ]
    ELSE LET h == hash_request(req, cfg)
         IN  IF IsSome(h.hash)
             THEN [ r EXCEPT !.pc = "lookup",
                             !.req = h.req,
                             !.session = session,
                             !.hash = h.hash ]
             ELSE [ r EXCEPT !.pc = "done",
                             !.req = h.req,
                             !.session = session,
                             !.ret = Err ]

\* mutant: the body read for the hash is not put back into the request
AfterExtractConsumesBody(r, req, session, cfg) ==
    IF session = NoSession
    THEN [ r EXCEPT !.pc = "forward", !.req = req ]
    ELSE LET h == hash_request(req, cfg)
         IN  [ r EXCEPT !.pc = IF IsSome(h.hash) THEN "lookup" ELSE "call",
                        !.req = IF cfg.use_idempotency_key \/ cfg.ignore_body
                                THEN h.req
                                ELSE [ h.req EXCEPT !.body = "" ],
                        !.session = session,
                        !.hash = h.hash ]

\* the session is extracted and the request hashed
AfterExtract(r, req, session, cfg) ==
    IF session = NoSession
    THEN [ r EXCEPT !.pc = "forward", !.req = req ]
    ELSE LET h == hash_request(req, cfg)
         IN  [ r EXCEPT !.pc = IF IsSome(h.hash) THEN "lookup" ELSE "call",
                        !.req = h.req,
                        !.session = session,
                        !.hash = h.hash ]

\* mutant: a cached response is found and the handler runs all the same
AfterLookupReexecutes(r, cached, cfg) ==
    [ r EXCEPT !.pc = "call",
               !.lookup = IF cached.ok
                          THEN IF IsSome(cached.val) THEN "hit" ELSE "miss"
                          ELSE "error" ]

\* mutant: an error of check_cached_response is returned (a ? on it)
AfterLookupPropagates(r, cached, cfg) ==
    IF ~cached.ok
    THEN [ r EXCEPT !.pc = "done", !.lookup = "error", !.ret = Err ]
    ELSE IF IsSome(cached.val)
         THEN [ r EXCEPT !.pc = "done",
                         !.lookup = "hit",
                         !.ret = Ok([ Unwrap(cached.val) EXCEPT !.headers =
                                        { p \in @ : p[1] # cfg.replay_header_name }
                                          \cup { <<cfg.replay_header_name, "true">> } ]) ]
         ELSE [ r EXCEPT !.pc = "call", !.lookup = "miss" ]

\* mutant: a response found in the store is stored again before it is
\* returned
AfterLookupRestores(r, cached, cfg) ==
    IF cached.ok /\ IsSome(cached.val)
    THEN [ r EXCEPT !.pc = "update",
                    !.lookup = "hit",
                    !.res = MarkReplayed(Unwrap(cached.val), cfg),
                    !.bytes = Encode(MarkReplayed(Unwrap(cached.val), cfg)) ]
    ELSE [ r EXCEPT !.pc = "call",
                    !.lookup = IF cached.ok THEN "miss" ELSE "error" ]

\* the match on check_cached_response(hash, &session)
AfterLookup(r, cached, cfg) ==
    IF cached.ok /\ IsSome(cached.val)
    THEN [ r EXCEPT !.pc = "done",
                    !.lookup = "hit",
                    !.ret = Ok(MarkReplayed(Unwrap(cached.val), cfg)) ]
    ELSE [ r EXCEPT !.pc = "call",
                    !.lookup = IF cached.ok THEN "miss" ELSE "error" ]

\* mutant: the failure to extract the session is returned as an error
AfterForwardFails(r, result) == [ r EXCEPT !.pc = "done", !.ret = Err ]

\* return inner.call(req).await, with no session
AfterForward(r, result) ==
    [ r EXCEPT !.pc = "done",
               !.invoked = @ + 1,
               !.passed = r.req,
               !.hres = result,
               !.ret = result ]

\* mutant: a cacheable response is stored whether or not there is a hash
AfterCallStoresUnkeyed(r, result, cfg) ==
    LET called == [ r EXCEPT !.invoked = @ + 1,
                             !.passed = r.req,
                             !.hres = result ]
    IN  IF ~result.ok
        THEN [ called EXCEPT !.pc = "done", !.ret = Err ]
        ELSE IF result.res.status \notin cfg.ignored_res_status_codes
             THEN [ called EXCEPT !.pc = "update",
                                  !.res = result.res,
                                  !.bytes = Encode(result.res) ]
             ELSE [ called EXCEPT !.pc = "done", !.ret = Ok(result.res) ]

\* mutant: a response that is not cached makes the inner service run again
AfterCallRetries(r, result, cfg) ==
    LET called == [ r EXCEPT !.invoked = @ + 1,
                             !.passed = r.req,
                             !.hres = result ]
    IN  IF ~result.ok
        THEN [ called EXCEPT !.pc = "done", !.ret = Err ]
        ELSE IF result.res.status \notin cfg.ignored_res_status_codes
                  /\ IsSome(r.hash)
             THEN [ called EXCEPT !.pc = "update",
                                  !.res = result.res,
                                  !.bytes = Encode(result.res) ]
             ELSE [ called EXCEPT !.pc = "done",
                                  !.invoked = @ + 1,
                                  !.ret = Ok(result.res) ]

\* mutant: an error of the inner service is turned into a response and stored
AfterCallCachesError(r, result, cfg) ==
    LET called == [ r EXCEPT !.invoked = @ + 1,
                             !.passed = r.req,
                             !.hres = result ]
        failed == Response(502, {}, "Bad Gateway")
    IN  IF ~result.ok
        THEN IF IsSome(r.hash)
             THEN [ called EXCEPT !.pc = "update",
                                  !.res = failed,
                                  !.bytes = Encode(failed) ]
             ELSE [ called EXCEPT !.pc = "done", !.ret = Err ]
        ELSE IF IsCacheable(result.res.status, cfg) /\ IsSome(r.hash)
             THEN LET rb == response_to_bytes(result.res)
                  IN  [ called EXCEPT !.pc = "update",
                                      !.res = rb.res,
                                      !.bytes = rb.bytes ]
             ELSE [ called EXCEPT !.pc = "done", !.ret = Ok(result.res) ]

\* mutant: the response is returned while the store write is still to be made
AfterCallRespondsFirst(r, result, cfg) ==
    LET called == [ r EXCEPT !.invoked = @ + 1,
                             !.passed = r.req,
                             !.hres = result ]
    IN  IF ~result.ok
        THEN [ called EXCEPT !.pc = "done", !.ret = Err ]
        ELSE [ called EXCEPT !.pc = "done", !.ret = Ok(result.res) ]

\* inner.call(req).await?, then the choice between caching and returning
AfterCall(r, result, cfg) ==
    LET called == [ r EXCEPT !.invoked = @ + 1,
                             !.passed = r.req,
                             !.hres = result ]
    IN  IF ~result.ok
        THEN [ called EXCEPT !.pc = "done", !.ret = Err ]
        ELSE IF IsCacheable(result.res.status, cfg) /\ IsSome(r.hash)
             THEN LET rb == response_to_bytes(result.res)
                  IN  [ called EXCEPT !.pc = "update",
                                      !.res = rb.res,
                                      !.bytes = rb.bytes ]
             ELSE [ called EXCEPT !.pc = "done", !.ret = Ok(result.res) ]

\* mutant: the stored response is returned with the replay header set
AfterUpdateMarked(r, written, cfg) ==
    [ r EXCEPT !.pc = "done",
               !.wrote = IF written THEN "ok" ELSE "error",
               !.wttl = cfg.body_cache_ttl_secs,
               !.ret = Ok([ r.res EXCEPT !.headers =
                              { p \in @ : p[1] # cfg.replay_header_name }
                                \cup { <<cfg.replay_header_name, "true">> } ]) ]

\* mutant: an error of session.update is returned (a ? on it)
AfterUpdatePropagates(r, written, cfg) ==
    [ r EXCEPT !.pc = "done",
               !.wrote = IF written THEN "ok" ELSE "error",
               !.wttl = cfg.body_cache_ttl_secs,
               !.ret = IF written THEN Ok(r.res) ELSE Err ]

\* mutant: a failed write starts the request over
AfterUpdateRestarts(r, written, cfg) ==
    IF written
    THEN [ r EXCEPT !.pc = "done",
                    !.wrote = "ok",
                    !.wttl = cfg.body_cache_ttl_secs,
                    !.ret = Ok(r.res) ]
    ELSE [ r EXCEPT !.pc = "lookup",
                    !.invoked = 0,
                    !.wrote = "error",
                    !.wttl = cfg.body_cache_ttl_secs ]

\* the result of session.update is logged; the response is returned
AfterUpdate(r, written, cfg) ==
    [ r EXCEPT !.pc = "done",
               !.wrote = IF written THEN "ok" ELSE "error",
               !.wttl = WriteTtl(cfg),
               !.ret = Ok(r.res) ]

(***************************************************************************)
(* Actions.                                                                *)
(***************************************************************************)
\* the sessions seen so far
Used == { rq[j].session : j \in Reqs } \ {NoSession}

\* the session of a new cookie: sessions are named in the order they appear
Fresh == IF "s1" \notin Used THEN {"s1"} ELSE Sessions

\* call(req): the requests are numbered in the order they arrive
Arrive(i) ==
    /\ rq[i].pc = "idle"
    /\ \A j \in Reqs : j < i => rq[j].pc # "idle"
    /\ \E session \in Fresh \cup {NoSession}, req \in Incoming(config) :
         LET r == AfterExtract(rq[i], req, session, config)
         IN  rq' = [ rq EXCEPT ![i] =
                       [ r EXCEPT !.recv = req,
                                  !.after = { j \in Reqs : rq[j].pc = "done" },
                                  !.atStart =
                                      IF IsSome(r.hash)
                                      THEN Held(store, r.session, Unwrap(r.hash))
                                      ELSE None ] ]
    /\ UNCHANGED << config, store >>

\* mutant: a hit renews the expiry of the field (sliding expiration)
LookupSliding(i) ==
    /\ rq[i].pc = "lookup"
    /\ \E fails \in BOOLEAN :
         LET r     == rq[i]
             got   == SessionGet(store, r.session, Unwrap(r.hash), fails)
             read  == [ r EXCEPT !.held = Held(store, r.session, Unwrap(r.hash)),
                                 !.stale = Expired(store, r.session, Unwrap(r.hash)),
                                 !.got = IF got.ok THEN "ok" ELSE "error" ]
             found == AfterLookup(read, check_cached_response(got), config)
         IN  /\ rq' = [ rq EXCEPT ![i] = found ]
             /\ store' = IF found.lookup = "hit"
                         THEN [ store EXCEPT ![<<r.session, Unwrap(r.hash)>>].ttl =
                                  WriteTtl(config) ]
                         ELSE store
    /\ UNCHANGED config

\* mutant: an in-flight registry: the lookup waits while another request of
\* the same session with the same fingerprint is executing or storing
LookupSingleFlight(i) ==
    /\ rq[i].pc = "lookup"
    /\ \A j \in Reqs \ {i} :
         ~ ( /\ rq[j].pc \in {"call", "update"}
             /\ rq[j].session = rq[i].session
             /\ rq[j].hash = rq[i].hash )
    /\ \E fails \in BOOLEAN :
         LET r    == rq[i]
             got  == SessionGet(store, r.session, Unwrap(r.hash), fails)
             read == [ r EXCEPT !.held = Held(store, r.session, Unwrap(r.hash)),
                                !.stale = Expired(store, r.session, Unwrap(r.hash)),
                                !.got = IF got.ok THEN "ok" ELSE "error" ]
         IN  rq' = [ rq EXCEPT ![i] =
                       AfterLookup(read, check_cached_response(got), config) ]
    /\ UNCHANGED << config, store >>

Lookup(i) ==
    /\ rq[i].pc = "lookup"
    /\ \E fails \in BOOLEAN :
         LET r    == rq[i]
             got  == SessionGet(store, r.session, Unwrap(r.hash), fails)
             read == [ r EXCEPT !.held = Held(store, r.session, Unwrap(r.hash)),
                                !.stale = Expired(store, r.session, Unwrap(r.hash)),
                                !.got = IF got.ok THEN "ok" ELSE "error" ]
         IN  rq' = [ rq EXCEPT ![i] =
                       AfterLookup(read, check_cached_response(got), config) ]
    /\ UNCHANGED << config, store >>

Forward(i) ==
    /\ rq[i].pc = "forward"
    /\ \E result \in HandlerResults :
         rq' = [ rq EXCEPT ![i] = AfterForward(@, result) ]
    /\ UNCHANGED << config, store >>

CallInner(i) ==
    /\ rq[i].pc = "call"
    /\ \E result \in HandlerResults :
         rq' = [ rq EXCEPT ![i] = AfterCall(@, result, config) ]
    /\ UNCHANGED << config, store >>

Update(i) ==
    /\ rq[i].pc = "update"
    /\ \E written \in BOOLEAN :
         /\ store' = IF written
                     THEN SessionUpdate(store, rq[i].session, Unwrap(rq[i].hash),
                                        rq[i].bytes, WriteTtl(config))
                     ELSE store
         /\ rq' = [ rq EXCEPT ![i] =
                     [ AfterUpdate(@, written, config) EXCEPT !.over =
                         IF written
                         THEN Held(store, rq[i].session, Unwrap(rq[i].hash))
                         ELSE None ] ]
    /\ UNCHANGED config

\* the store's clock advances: every live field is a tick nearer its expiry
Tick ==
    /\ \E k \in DOMAIN store : Live(store[k])
    /\ store' = [ k \in DOMAIN store |->
                    IF Live(store[k])
                    THEN [ store[k] EXCEPT !.ttl = @ - 1 ] ELSE store[k] ]
    /\ UNCHANGED << config, rq >>

\* a stored value is damaged (store corruption, version skew)
Damage(k) ==
    /\ Live(store[k])
    /\ bytes_to_response(store[k].bytes).ok
    /\ store' = [ store EXCEPT ![k].bytes = Damaged(@) ]
    /\ UNCHANGED << config, rq >>

Next ==
    \/ \E i \in Reqs : Arrive(i)
    \/ \E i \in Reqs : Lookup(i)
    \/ \E i \in Reqs : Forward(i)
    \/ \E i \in Reqs : CallInner(i)
    \/ \E i \in Reqs : Update(i)
    \/ Tick
    \/ \E k \in DOMAIN store : Damage(k)

Spec == Init /\ [][Next]_vars

(***************************************************************************)
(* The service when every store call and every call of the inner service   *)
(* returns: a future that can be polled to its next await point is.        *)
(***************************************************************************)
Fairness ==
    \A i \in Reqs :
        /\ WF_vars(Lookup(i))
        /\ WF_vars(Forward(i))
        /\ WF_vars(CallInner(i))
        /\ WF_vars(Update(i))

LiveSpec == Init /\ [][Next]_vars /\ Fairness

(***************************************************************************)
(* The same service under the configurations of the fingerprint tests.     *)
(***************************************************************************)
FingerprintInit ==
    /\ config \in FingerprintConfigs
    /\ store = << >>
    /\ rq = [ i \in Reqs |-> IdleRequest ]

FingerprintSpec == FingerprintInit /\ [][Next]_vars

(***************************************************************************)
(* The builder: an IdempotentOptions value is made by new or default and   *)
(* then by any sequence of builder calls, before the layer is built from   *)
(* it.  config is the value under construction; no request is served.      *)
(***************************************************************************)
BuilderInit ==
    /\ config \in { Default, new(CacheTtl) }
    /\ store = << >>
    /\ rq = [ i \in Reqs |-> IdleRequest ]

ExpireAfter ==
    /\ \E seconds \in { 1, CacheTtl } : config' = expire_after(config, seconds)
    /\ UNCHANGED << store, rq >>

IgnoreBody ==
    /\ \E ignore \in BOOLEAN : config' = ignore_body(config, ignore)
    /\ UNCHANGED << store, rq >>

IgnoreHeader ==
    /\ config' = ignore_header(config, "x-request-id")
    /\ UNCHANGED << store, rq >>

IgnoreHeaderWithValue ==
    /\ \E value \in { "123", "456" } :
         config' = ignore_header_with_value(config, "x-request-id", value)
    /\ UNCHANGED << store, rq >>

IgnoreAllHeaders ==
    /\ config' = ignore_all_headers(config)
    /\ UNCHANGED << store, rq >>

IgnoreResponseStatusCode ==
    /\ config' = ignore_response_status_code(config, 404)
    /\ UNCHANGED << store, rq >>

UseIdempotencyKeyHeader ==
    /\ \E header_name \in { None, Some("x-idempotency-key") } :
         config' = use_idempotency_key_header(config, header_name)
    /\ UNCHANGED << store, rq >>

ReplayHeaderName ==
    /\ config' = replay_header_name(config, "x-replayed")
    /\ UNCHANGED << store, rq >>

BuilderNext ==
    \/ ExpireAfter
    \/ IgnoreBody
    \/ IgnoreHeader
    \/ IgnoreHeaderWithValue
    \/ IgnoreAllHeaders
    \/ IgnoreResponseStatusCode
    \/ UseIdempotencyKeyHeader
    \/ ReplayHeaderName

BuilderSpec == BuilderInit /\ [][BuilderNext]_vars

(***************************************************************************)
(* Vocabulary of the properties.                                           *)
(***************************************************************************)
Done(i) == rq[i].pc = "done"

\* the values of the replay header on a response
Marker(res) == HeaderValues(res.headers, config.replay_header_name)

Intact(option) == IsSome(option) /\ bytes_to_response(Unwrap(option)).ok

Stored(option) == bytes_to_response(Unwrap(option)).res

SameKey(i, j) ==
    /\ rq[i].session = rq[j].session
    /\ rq[i].session # NoSession
    /\ rq[i].hash = rq[j].hash
    /\ IsSome(rq[i].hash)

\* request i executed the handler, got a cacheable response and stored it
Cached(i) ==
    /\ rq[i].wrote = "ok"
    /\ rq[i].invoked = 1
    /\ rq[i].hres.ok
    /\ rq[i].hres.res.status \notin config.ignored_res_status_codes

\* request j returned the stored bytes as a replay, without the handler
ReplayOf(j, bytes) ==
    /\ Done(j)
    /\ rq[j].invoked = 0
    /\ rq[j].ret = Ok(MarkReplayed(bytes_to_response(bytes).res, config))

(***************************************************************************)
(* C1.  Replay.                                                            *)
(***************************************************************************)
\* C1 as stated: once a request of session S with fingerprint F has executed
\* the handler, got a response whose status is not ignored and stored it,
\* every later request of S with F that starts while the entry is live (and
\* intact) returns the stored response and does not invoke the handler.
C1_ReplayWheneverStarted ==
    \A i, j \in Reqs :
        ( /\ i \in rq[j].after
          /\ Cached(i)
          /\ SameKey(i, j)
          /\ rq[j].atStart = Some(rq[i].bytes)
          /\ Done(j) )
        => ReplayOf(j, rq[i].bytes)

\* C1 amended: a request of S with F whose store read succeeds and finds the
\* entry live and intact returns the stored response, marked, and does not
\* invoke the handler; the entry is the one a request of S with F stored after
\* executing the handler and getting a response whose status is not ignored.
C1_ReplayOnSuccessfulRead ==
    \A j \in Reqs :
        (rq[j].got = "ok" /\ Intact(rq[j].held))
        => /\ ReplayOf(j, Unwrap(rq[j].held))
           /\ \E i \in Reqs \ {j} :
                /\ Cached(i)
                /\ SameKey(i, j)
                /\ rq[i].bytes = Unwrap(rq[j].held)

C1_Witness ==
    \E i, j \in Reqs :
        /\ i \in rq[j].after
        /\ Cached(i)
        /\ SameKey(i, j)
        /\ rq[j].got = "ok"
        /\ rq[j].held = Some(rq[i].bytes)
        /\ Done(j)

(***************************************************************************)
(* C2.  The replay header of a replayed response.                          *)
(***************************************************************************)
\* C2: every response returned on the replay path carries the replay header
\* with the single value "true", whatever headers the stored snapshot had.
C2_ReplayedIsMarkedTrue ==
    \A j \in Reqs :
        rq[j].lookup = "hit"
        => /\ Done(j)
           /\ rq[j].ret.ok
           /\ Marker(rq[j].ret.res) = {"true"}

\* a replay of a snapshot that held the replay header with another value
C2_Witness ==
    \E j \in Reqs :
        /\ rq[j].lookup = "hit"
        /\ Marker(Stored(rq[j].held)) = {"false"}

(***************************************************************************)
(* C3.  The replay header of an executed response.                         *)
(***************************************************************************)
\* C3 as stated: a response returned after the handler was executed for the
\* request does not carry the replay header.
C3_ExecutedCarriesNoMarker ==
    \A i \in Reqs :
        (Done(i) /\ rq[i].invoked > 0 /\ rq[i].ret.ok)
        => Marker(rq[i].ret.res) = {}

\* C3 amended: a response returned after the handler was executed carries
\* the replay header exactly as the handler's own response does: none is
\* added, and none is there unless the handler put it there.
C3_ExecutedMarkerIsHandlers ==
    \A i \in Reqs :
        (Done(i) /\ rq[i].invoked > 0 /\ rq[i].ret.ok)
        => /\ rq[i].hres.ok
           /\ Marker(rq[i].ret.res) = Marker(rq[i].hres.res)

\* executed responses without the header on the miss path, with the store
\* write done, and one that carries the handler's own header
C3_Witness ==
    /\ \E i \in Reqs :
         /\ Done(i) /\ rq[i].lookup = "miss" /\ rq[i].wrote = "ok"
         /\ Marker(rq[i].ret.res) = {}
    /\ \E i \in Reqs :
         /\ Done(i) /\ rq[i].invoked > 0 /\ rq[i].ret.ok
         /\ Marker(rq[i].ret.res) # {}

(***************************************************************************)
(* C4.  Expiry.                                                            *)
(***************************************************************************)
\* every store write carries the configured ttl, and no field lives longer
WritesCarryTtl ==
    /\ \A i \in Reqs :
         rq[i].wrote # "none" => rq[i].wttl = config.body_cache_ttl_secs
    /\ \A k \in DOMAIN store : store[k].ttl <= config.body_cache_ttl_secs

\* C4 as stated: every store write carries the configured ttl, and a request
\* that reads the field of (S, F) once that ttl has run out since its write
\* invokes the handler again and returns the fresh response without the
\* replay header.
C4_ExpiredThenFreshUnmarked ==
    /\ WritesCarryTtl
    /\ \A j \in Reqs :
         (Done(j) /\ rq[j].stale)
         => /\ rq[j].invoked = 1
            /\ rq[j].ret = rq[j].hres
            /\ (rq[j].ret.ok => Marker(rq[j].ret.res) = {})

\* C4 amended: every store write carries the configured ttl, and a request
\* that reads the field of (S, F) once that ttl has run out since its write
\* is not replayed: it invokes the handler again and returns the handler's
\* fresh result as it is, no replay header being added to it.
C4_ExpiredThenFresh ==
    /\ WritesCarryTtl
    /\ \A j \in Reqs :
         rq[j].stale
         => /\ rq[j].lookup \in {"miss", "error"}
            /\ rq[j].pc \in {"call", "update", "done"}
            /\ Done(j) => (rq[j].invoked = 1 /\ rq[j].ret = rq[j].hres)

\* a request served a fresh response after the entry of an earlier one expired
C4_Witness ==
    \E i, j \in Reqs :
        /\ Cached(i)
        /\ SameKey(i, j)
        /\ i \in rq[j].after
        /\ rq[j].stale
        /\ Done(j)
        /\ rq[j].ret.ok
        /\ rq[j].ret.res # rq[i].ret.res

(***************************************************************************)
(* C5.  Ignored status codes.                                              *)
(***************************************************************************)
\* a handler response with an ignored status
Ignored(i) ==
    /\ rq[i].invoked = 1
    /\ rq[i].hres.ok
    /\ rq[i].hres.res.status \in config.ignored_res_status_codes

\* no stored value is the snapshot of a response with an ignored status
NoIgnoredStatusStored ==
    \A k \in DOMAIN store :
        bytes_to_response(store[k].bytes).ok
        => bytes_to_response(store[k].bytes).res.status
               \notin config.ignored_res_status_codes

\* C5 as stated: a handler response with an ignored status causes no store
\* write, so repeated identical requests answered with such a status each
\* invoke the handler, and none is returned with the replay header.
C5_IgnoredStatusUnmarked ==
    /\ NoIgnoredStatusStored
    /\ \A i \in Reqs :
         Ignored(i)
         => /\ Done(i)
            /\ rq[i].wrote = "none"
            /\ Marker(rq[i].ret.res) = {}

\* C5 amended: a handler response with an ignored status causes no store
\* write, so repeated identical requests answered with such a status each
\* invoke the handler, and each returns the handler's own response, to which
\* no replay header is added; a replay among them comes from another
\* request's stored response, never from the ignored one.
C5_IgnoredStatusNeverCached ==
    /\ NoIgnoredStatusStored
    /\ \A i \in Reqs :
         Ignored(i)
         => /\ Done(i)
            /\ rq[i].wrote = "none"
            /\ rq[i].ret = rq[i].hres
    /\ \A i, j \in Reqs :
         (i # j /\ SameKey(i, j) /\ Ignored(i) /\ rq[j].lookup = "hit")
         => \E w \in Reqs \ {i, j} : Cached(w) /\ SameKey(w, j)

\* two identical requests, one after the other, both answered with an
\* ignored status: the second found nothing stored and ran the handler
C5_Witness ==
    \E i, j \in Reqs :
        /\ i \in rq[j].after
        /\ SameKey(i, j)
        /\ rq[i].req = rq[j].req
        /\ Ignored(i) /\ Ignored(j)
        /\ rq[j].got = "ok"
        /\ rq[j].lookup = "miss"
        /\ Done(j)

(***************************************************************************)
(* C6, C7.  Direct-key mode.                                               *)
(***************************************************************************)
\* the value of the configured key header of request i
KeyOf(i) == HeaderGet(rq[i].req.headers, config.idempotency_key_header)

\* requests i then j, one after the other, of one session, with one key
SequentialSameKey(i, j) ==
    /\ i \in rq[j].after
    /\ Done(j)
    /\ rq[i].session = rq[j].session
    /\ rq[i].session # NoSession
    /\ IsSome(KeyOf(i))
    /\ KeyOf(i) = KeyOf(j)

\* C6 as stated: in direct-key mode the fingerprint is the value of the key
\* header, so two sequential requests of one session with the same key value
\* execute the handler exactly once, and a request with another key value
\* executes it again.
C6_SameKeyExecutesOnce ==
    config.use_idempotency_key
    => \A i, j \in Reqs :
         /\ SequentialSameKey(i, j) => rq[i].invoked + rq[j].invoked = 1
         /\ ( /\ i \in rq[j].after /\ Done(j)
              /\ rq[j].session # NoSession
              /\ KeyOf(i) # KeyOf(j) )
            => rq[j].invoked = 1

\* C6 amended: in direct-key mode the fingerprint is the value of the key
\* header; of two sequential requests of one session with the same key value,
\* the first of which stored its response and the second of which read it back
\* intact before it expired, the handler executes exactly once (the second is
\* replayed, whatever its body); and a request is only ever replayed from an
\* entry stored under its own key value, so one with a key value not yet used
\* executes the handler.
C6_DirectKey ==
    config.use_idempotency_key
    => /\ \A i \in Reqs :
            (rq[i].pc # "idle" /\ rq[i].session # NoSession)
            => rq[i].hash = KeyOf(i)
       /\ \A i, j \in Reqs :
            ( /\ SequentialSameKey(i, j)
              /\ Cached(i)
              /\ rq[j].got = "ok"
              /\ rq[j].held = Some(rq[i].bytes) )
            => /\ rq[i].invoked + rq[j].invoked = 1
               /\ ReplayOf(j, rq[i].bytes)
       /\ \A j \in Reqs :
            rq[j].lookup = "hit"
            => \E i \in Reqs \ {j} :
                 /\ Cached(i)
                 /\ rq[i].session = rq[j].session
                 /\ KeyOf(i) = KeyOf(j)
                 /\ ReplayOf(j, rq[i].bytes)

\* a replay of a request with the same key and another body
C6_Witness ==
    /\ config.use_idempotency_key
    /\ \E i, j \in Reqs :
         /\ SequentialSameKey(i, j)
         /\ Cached(i)
         /\ rq[j].lookup = "hit"
         /\ rq[i].req.body # rq[j].req.body
         /\ rq[i].invoked + rq[j].invoked = 1

\* a second request, with another key, that executed the handler
C6_OtherKeyReached ==
    /\ config.use_idempotency_key
    /\ \E i, j \in Reqs :
         /\ i \in rq[j].after /\ Cached(i) /\ Done(j)
         /\ rq[i].session = rq[j].session
         /\ IsSome(KeyOf(j))
         /\ KeyOf(i) # KeyOf(j)
         /\ rq[j].invoked = 1

\* request i came with a session, in direct-key mode, without the key header
Keyless(i) ==
    /\ config.use_idempotency_key
    /\ rq[i].pc # "idle"
    /\ rq[i].session # NoSession
    /\ KeyOf(i) = None

\* C7: in direct-key mode a request without the key header gets no
\* fingerprint; the handler is invoked, and the request performs neither a
\* store lookup nor a store write, whatever the status of the response.
C7_KeylessIsUncached ==
    \A i \in Reqs :
        Keyless(i)
        => /\ rq[i].hash = None
           /\ rq[i].pc \in {"call", "done"}
           /\ rq[i].got = "none"
           /\ rq[i].lookup = "none"
           /\ rq[i].wrote = "none"
           /\ Done(i) => (rq[i].invoked = 1 /\ rq[i].ret = rq[i].hres)

\* a keyless request answered with a cacheable status, and one with an
\* ignored status
C7_Witness ==
    /\ \E i \in Reqs :
         /\ Keyless(i) /\ Done(i) /\ rq[i].ret.ok
         /\ IsCacheable(rq[i].ret.res.status, config)
    /\ \E i \in Reqs :
         /\ Keyless(i) /\ Done(i) /\ rq[i].ret.ok
         /\ ~IsCacheable(rq[i].ret.res.status, config)

(***************************************************************************)
(* C8, C9, C10.  Failing open.                                             *)
(***************************************************************************)
\* the extraction of the session of request i failed
Sessionless(i) == rq[i].pc # "idle" /\ rq[i].session = NoSession

\* C8: when the session cannot be extracted, the handler is invoked with the
\* request and its result is returned unchanged; no fingerprint is computed,
\* and the request neither reads nor writes the store.
C8_NoSessionForwards ==
    \A i \in Reqs :
        Sessionless(i)
        => /\ rq[i].pc \in {"forward", "done"}
           /\ rq[i].hash = None
           /\ rq[i].got = "none"
           /\ rq[i].lookup = "none"
           /\ rq[i].wrote = "none"
           /\ Done(i) => /\ rq[i].invoked = 1
                         /\ rq[i].passed = rq[i].req
                         /\ rq[i].ret = rq[i].hres

\* a request without a session answered with a cacheable response, a key
\* header in it
C8_Witness ==
    \E i \in Reqs :
        /\ Sessionless(i)
        /\ Done(i)
        /\ rq[i].ret.ok
        /\ IsCacheable(rq[i].ret.res.status, config)
        /\ IsSome(KeyOf(i))

\* the read of the store failed, or gave bytes that do not decode
ReadFailed(i) ==
    \/ rq[i].got = "error"
    \/ rq[i].got = "ok" /\ IsSome(rq[i].held) /\ ~Intact(rq[i].held)

\* C9 as stated: when the store lookup returns an error, or bytes that fail
\* to decode, the request is treated as a miss: the handler is invoked and
\* its response is returned without the replay header.
C9_ReadFailureUnmarked ==
    \A i \in Reqs :
        (ReadFailed(i) /\ Done(i))
        => /\ rq[i].invoked = 1
           /\ rq[i].ret = rq[i].hres
           /\ (rq[i].ret.ok => Marker(rq[i].ret.res) = {})

\* C9 amended: when the store lookup returns an error, or bytes that fail
\* to decode, the request is treated as a miss: the handler is invoked and
\* its result is returned as it is, no replay header being added to it.
C9_ReadFailureIsMiss ==
    \A i \in Reqs :
        ReadFailed(i)
        => /\ rq[i].lookup = "error"
           /\ rq[i].pc \in {"call", "update", "done"}
           /\ Done(i) => (rq[i].invoked = 1 /\ rq[i].ret = rq[i].hres)

\* one request whose read failed and one whose read gave damaged bytes, both
\* answered by the handler
C9_Witness ==
    \E i, j \in Reqs :
        /\ rq[i].got = "error" /\ Done(i) /\ rq[i].ret.ok
        /\ rq[j].got = "ok" /\ ReadFailed(j) /\ Done(j) /\ rq[j].ret.ok

\* C10: when the store write of a cacheable response fails, the response
\* returned has the status, headers and body of the handler's response, as
\* when the write succeeds; the store is as it was.
C10_WriteFailureReturnsResponse ==
    /\ \A i \in Reqs :
         rq[i].wrote # "none"
         => /\ Done(i)
            /\ rq[i].hres.ok
            /\ rq[i].ret = rq[i].hres
    /\ \A k \in DOMAIN store :
         \E i \in Reqs :
            /\ rq[i].wrote = "ok"
            /\ k = <<rq[i].session, Unwrap(rq[i].hash)>>
            /\ store[k].bytes \in {rq[i].bytes, Damaged(rq[i].bytes)}

\* a failed write, and the same response returned after a write that succeeded
C10_Witness ==
    \E i, j \in Reqs :
        /\ rq[i].wrote = "error"
        /\ rq[j].wrote = "ok"
        /\ rq[i].ret = rq[j].ret
        /\ rq[i].ret.ok

(***************************************************************************)
(* C11.  The handler is invoked at most once per request.                  *)
(***************************************************************************)
\* C11: on every path of call the inner service is invoked at most once for
\* a request: not at all when the request is replayed from the store, and
\* exactly once by the time call returns otherwise.
C11_HandlerAtMostOnce ==
    \A i \in Reqs :
        /\ rq[i].invoked \in {0, 1}
        /\ rq[i].lookup = "hit" => (Done(i) /\ rq[i].invoked = 0)
        /\ (Done(i) /\ rq[i].lookup # "hit") => rq[i].invoked = 1

\* a request that ran the handler once and stored its response, and a
\* request replayed without the handler
C11_Witness ==
    \E i, j \in Reqs :
        /\ Done(i) /\ rq[i].lookup = "hit" /\ rq[i].invoked = 0
        /\ Done(j) /\ rq[j].lookup = "miss" /\ rq[j].invoked = 1
        /\ rq[j].wrote = "ok"

(***************************************************************************)
(* C12.  Direct-key mode and the ignore flags (BuilderSpec).               *)
(***************************************************************************)
\* C12: in every IdempotentOptions value that a sequence of builder calls
\* reaches, direct-key mode on implies ignore_all_headers and ignore_body.
C12_DirectKeyForcesIgnoring ==
    config.use_idempotency_key
    => (config.ignore_all_headers /\ config.ignore_body)

\* direct-key mode is on and the body is not ignored
C12_Witness ==
    /\ config.use_idempotency_key
    /\ config.ignore_all_headers
    /\ ~config.ignore_body

(***************************************************************************)
(* C13.  Overwrites.                                                       *)
(***************************************************************************)
\* request i wrote over a live value of its field that was not its own bytes
Overwrote(i) ==
    /\ rq[i].wrote = "ok"
    /\ IsSome(rq[i].over)
    /\ Unwrap(rq[i].over) # rq[i].bytes

\* C13 as stated: no store write of the engine replaces the live value of a
\* field by a different snapshot, whatever the interleaving of the requests.
C13_NeverOverwritesDifferent ==
    \A i \in Reqs : ~Overwrote(i)

\* C13 amended: a request that read its field back intact never writes it
\* (it is replayed); a write replaces the live value of a field by a
\* different snapshot only when the writer's lookup did not return that
\* value: the lookup came before the value was written, or the read failed,
\* or the value read did not decode.  Writes touch the writer's own field.
C13_OverwriteOnlyAfterMiss ==
    /\ \A i \in Reqs :
         rq[i].lookup = "hit" => (rq[i].wrote = "none" /\ rq[i].over = None)
    /\ \A i \in Reqs :
         Overwrote(i)
         => \/ rq[i].got = "error"
            \/ rq[i].held = None
            \/ ~Intact(rq[i].held)
    /\ \A i \in Reqs :
         (rq[i].got = "ok" /\ Intact(rq[i].held)) => rq[i].wrote = "none"

\* two requests of one session with one fingerprint both missed, the handler
\* answered them differently, and the second write replaced the first
C13_Witness ==
    \E i, j \in Reqs :
        /\ i # j
        /\ SameKey(i, j)
        /\ rq[i].lookup = "miss" /\ rq[i].held = None
        /\ rq[j].lookup = "miss" /\ rq[j].held = None
        /\ rq[i].wrote = "ok"
        /\ Overwrote(j)
        /\ rq[j].over = Some(rq[i].bytes)

(***************************************************************************)
(* C14.  The thundering-herd window.                                       *)
(***************************************************************************)
\* C14: the engine holds no lock and no in-flight registry: a request that
\* has a step to take can take it in every reachable state, whatever the
\* other requests are doing; so two concurrent requests of one session with
\* one fingerprint can both look up before either has written, both miss
\* and both invoke the handler (C14_Witness is that state).
C14_NoRequestWaits ==
    \A i \in Reqs :
        /\ rq[i].pc = "lookup"  => ENABLED Lookup(i)
        /\ rq[i].pc = "call"    => ENABLED CallInner(i)
        /\ rq[i].pc = "forward" => ENABLED Forward(i)
        /\ rq[i].pc = "update"  => ENABLED Update(i)

\* both requests found nothing, both have run the handler, neither had
\* returned when the other arrived and neither has written yet
C14_Witness ==
    \E i, j \in Reqs :
        /\ i # j
        /\ SameKey(i, j)
        /\ i \notin rq[j].after /\ j \notin rq[i].after
        /\ rq[i].lookup = "miss" /\ rq[i].got = "ok" /\ rq[i].held = None
        /\ rq[j].lookup = "miss" /\ rq[j].got = "ok" /\ rq[j].held = None
        /\ rq[i].invoked = 1 /\ rq[j].invoked = 1
        /\ rq[i].pc = "update" /\ rq[j].pc = "update"
        /\ store = << >>

(***************************************************************************)
(* C15.  Session isolation.                                                *)
(***************************************************************************)
\* C15: a request is replayed only from the field of its own session: the
\* response it returns is the one a request of the same session with the
\* same fingerprint stored, and its own field held it when it was read; a
\* response stored in another session under the same fingerprint is never
\* replayed to it.  Every stored field was written by a request of the
\* field's session.
C15_SessionIsolation ==
    /\ \A j \in Reqs :
         rq[j].lookup = "hit"
         => /\ Intact(rq[j].held)
            /\ rq[j].ret = Ok(MarkReplayed(Stored(rq[j].held), config))
            /\ \E i \in Reqs \ {j} :
                 /\ rq[i].wrote = "ok"
                 /\ rq[i].session = rq[j].session
                 /\ rq[i].hash = rq[j].hash
                 /\ rq[i].bytes = Unwrap(rq[j].held)
    /\ \A i, j \in Reqs :
         ( /\ rq[i].session # rq[j].session
           /\ rq[j].lookup = "hit" )
         => \E w \in Reqs \ {i, j} : rq[w].session = rq[j].session
    /\ \A k \in DOMAIN store :
         \E i \in Reqs :
            /\ rq[i].wrote = "ok"
            /\ rq[i].session = k[1]
            /\ rq[i].hash = Some(k[2])

\* a response is stored and live in one session; a later request of another
\* session with the same fingerprint found nothing and ran the handler
C15_Witness ==
    \E i, j \in Reqs :
        /\ Cached(i)
        /\ i \in rq[j].after
        /\ rq[i].session # rq[j].session
        /\ rq[j].session # NoSession
        /\ rq[i].hash = rq[j].hash
        /\ Held(store, rq[i].session, Unwrap(rq[i].hash)) = Some(rq[i].bytes)
        /\ store[<<rq[i].session, Unwrap(rq[i].hash)>>].ttl = CacheTtl
        /\ rq[j].got = "ok" /\ rq[j].lookup = "miss"
        /\ Done(j) /\ rq[j].invoked = 1

(***************************************************************************)
(* C16.  Snapshot round trip.                                              *)
(***************************************************************************)
\* the headers of a response other than the replay header
OtherHeaders(res) == { p \in res.headers : p[1] # config.replay_header_name }

WriteFailed(i) == rq[i].wrote = "error"

CachePathFailed(i) == Sessionless(i) \/ ReadFailed(i) \/ WriteFailed(i)

\* C17: call returns an error only when the inner service returned an error
\* for this request; a request that met a failed session extraction, a
\* failed store read, undecodable bytes or a failed store write, alone or
\* together, returns what the inner service returned for it, whether a
\* response or an error.
C17_OnlyHandlerErrors ==
    \A i \in Reqs :
        /\ (Done(i) /\ ~rq[i].ret.ok)
           => (rq[i].invoked = 1 /\ rq[i].hres = Err /\ rq[i].ret = Err)
        /\ (Done(i) /\ CachePathFailed(i))
           => (rq[i].invoked = 1 /\ rq[i].ret = rq[i].hres)

\* one request whose read and whose write both failed and one with no
\* session: both returned the handler's response
C17_Witness ==
    \E i, j \in Reqs :
        /\ rq[i].got = "error" /\ WriteFailed(i)
        /\ Done(i) /\ rq[i].ret.ok
        /\ Sessionless(j)
        /\ Done(j) /\ rq[j].ret.ok

\* a request that read damaged bytes and whose write then failed
C17_DecodeAndWriteFailed ==
    \E i \in Reqs :
        /\ rq[i].got = "ok" /\ ReadFailed(i) /\ WriteFailed(i)
        /\ Done(i) /\ rq[i].ret.ok

\* a request with no session to which the handler answered with an error
C17_HandlerErrorReached ==
    \E i \in Reqs : Sessionless(i) /\ Done(i) /\ rq[i].ret = Err

(***************************************************************************)
(* C18.  Fingerprints in hashing mode (FingerprintSpec).                   *)
(***************************************************************************)
\* request i was given a fingerprint by hashing
Hashed(i) ==
    /\ rq[i].pc # "idle"
    /\ rq[i].session # NoSession
    /\ ~config.use_idempotency_key

\* the parts of the request that the hash covers are the same
SameHashedParts(i, j) ==
    /\ rq[i].req.method = rq[j].req.method
    /\ rq[i].req.uri = rq[j].req.uri
    /\ SurvivingHeaders(rq[i].req.headers, config)
         = SurvivingHeaders(rq[j].req.headers, config)
    /\ config.ignore_body \/ rq[i].req.body = rq[j].req.body

\* the requests are the same but for the headers with a name in names
DiffersOnlyIn(i, j, names) ==
    /\ rq[i].req.method = rq[j].req.method
    /\ rq[i].req.uri = rq[j].req.uri
    /\ rq[i].req.body = rq[j].req.body
    /\ { p \in rq[i].req.headers : p[1] \notin names }
         = { p \in rq[j].req.headers : p[1] \notin names }

\* j came after i had returned, in the same session
Sequential(i, j) ==
    /\ i \in rq[j].after
    /\ rq[i].session = rq[j].session
    /\ rq[i].session # NoSession

\* the fingerprints of requests whose hashed parts are the same are the
\* same, and so are those of requests that differ only in ignored headers
HashIsDeterministic ==
    \A i, j \in Reqs :
        (Hashed(i) /\ Hashed(j))
        => /\ IsSome(rq[i].hash)
           /\ SameHashedParts(i, j) => rq[i].hash = rq[j].hash
           /\ DiffersOnlyIn(i, j, config.ignored_req_headers)
                => rq[i].hash = rq[j].hash
           /\ ( config = IgnoreHeaderConfig
                /\ DiffersOnlyIn(i, j, {"x-request-id"}) )
                => rq[i].hash = rq[j].hash

\* C18 as stated: in hashing mode requests whose method, path, surviving
\* headers and (unless ignored) body are the same get the same fingerprint;
\* and of two requests of one session, one after the other, that differ only
\* in the value of an ignored header, the handler executes once and the
\* second returns the first one's response.
C18_IgnoredHeaderExecutesOnce ==
    /\ HashIsDeterministic
    /\ \A i, j \in Reqs :
         ( /\ Hashed(i) /\ Hashed(j)
           /\ Sequential(i, j)
           /\ rq[i].req # rq[j].req
           /\ DiffersOnlyIn(i, j, config.ignored_req_headers)
           /\ Done(j) )
         => /\ rq[i].invoked + rq[j].invoked = 1
            /\ ReplayOf(j, rq[i].bytes)

\* C18 amended: in hashing mode requests whose method, path, surviving
\* headers and (unless ignored) body are the same get the same fingerprint;
\* and of two requests of one session, one after the other, that differ only
\* in the value of an ignored header, the first of which stored its response
\* and the second of which read it back intact before it expired, the
\* handler executes once and the second returns the first one's response,
\* marked as replayed.
C18_IgnoredHeaderOneRequest ==
    /\ HashIsDeterministic
    /\ \A i, j \in Reqs :
         ( /\ Hashed(i) /\ Hashed(j)
           /\ Sequential(i, j)
           /\ rq[i].req # rq[j].req
           /\ DiffersOnlyIn(i, j, config.ignored_req_headers)
           /\ Cached(i)
           /\ rq[j].got = "ok"
           /\ rq[j].held = Some(rq[i].bytes) )
         => /\ rq[i].invoked + rq[j].invoked = 1
            /\ ReplayOf(j, rq[i].bytes)

\* x-request-id is ignored; a request with x-request-id 456 was replayed the
\* response stored by one with x-request-id 123
C18_Witness ==
    \E i, j \in Reqs :
        /\ config = IgnoreHeaderConfig
        /\ rq[i].req = Tagged({"123"}, "body A")
        /\ rq[j].req = Tagged({"456"}, "body A")
        /\ Sequential(i, j)
        /\ Cached(i)
        /\ ReplayOf(j, rq[i].bytes)

(***************************************************************************)
(* C19.  Body-ignoring mode (FingerprintSpec).                             *)
(***************************************************************************)
\* the requests have the same method, path and surviving headers, and
\* different bodies
SameButBody(i, j) ==
    /\ rq[i].req.method = rq[j].req.method
    /\ rq[i].req.uri = rq[j].req.uri
    /\ SurvivingHeaders(rq[i].req.headers, config)
         = SurvivingHeaders(rq[j].req.headers, config)
    /\ rq[i].req.body # rq[j].req.body

\* with ignore_body(true), requests that differ in the body alone have the
\* same fingerprint
BodyIsIgnored ==
    \A i, j \in Reqs :
        ( /\ Hashed(i) /\ Hashed(j)
          /\ config = IgnoreBodyConfig \/ config.ignore_body
          /\ SameButBody(i, j) )
        => rq[i].hash = rq[j].hash

\* C19 as stated: with ignore_body set, two requests of one session, one
\* after the other, with the same method, path and surviving headers and
\* different bodies have the same fingerprint, the handler executes once and
\* the second returns the first one's cached response.
C19_IgnoredBodyExecutesOnce ==
    /\ BodyIsIgnored
    /\ \A i, j \in Reqs :
         ( /\ Hashed(i) /\ Hashed(j)
           /\ config.ignore_body
           /\ Sequential(i, j)
           /\ SameButBody(i, j)
           /\ Done(j) )
         => /\ rq[i].invoked + rq[j].invoked = 1
            /\ ReplayOf(j, rq[i].bytes)

\* C19 amended: with ignore_body set, two requests of one session, one after
\* the other, with the same method, path and surviving headers and different
\* bodies have the same fingerprint; when the first stored its response and
\* the second read it back intact before it expired, the handler executes
\* once and the second returns the first one's cached response, marked as
\* replayed.
C19_IgnoredBodyOneRequest ==
    /\ BodyIsIgnored
    /\ \A i, j \in Reqs :
         ( /\ Hashed(i) /\ Hashed(j)
           /\ config.ignore_body
           /\ Sequential(i, j)
           /\ SameButBody(i, j)
           /\ Cached(i)
           /\ rq[j].got = "ok"
           /\ rq[j].held = Some(rq[i].bytes) )
         => /\ rq[i].invoked + rq[j].invoked = 1
            /\ ReplayOf(j, rq[i].bytes)
            /\ rq[j].ret.res.body = rq[i].ret.res.body

\* the body is ignored; a request with body B was replayed the response
\* stored by one with body A
C19_Witness ==
    \E i, j \in Reqs :
        /\ config = IgnoreBodyConfig
        /\ rq[i].req = Tagged({"123"}, "body A")
        /\ rq[j].req = Tagged({"123"}, "body B")
        /\ Sequential(i, j)
        /\ Cached(i)
        /\ ReplayOf(j, rq[i].bytes)

\* the body is not ignored, and requests that differ in the body alone have
\* different fingerprints
C19_BodyHashedReached ==
    \E i, j \in Reqs :
        /\ Hashed(i) /\ Hashed(j)
        /\ ~config.ignore_body
        /\ SameButBody(i, j)
        /\ rq[i].hash # rq[j].hash

(***************************************************************************)
(* C20.  Header-value-specific exclusion (FingerprintSpec).                *)
(***************************************************************************)
\* with H ignored when its value is V1: a request carrying H = V1 has the
\* fingerprint of the same request without H, and not that of the same
\* request with another value of H
ValueExcluded(H, V1) ==
    \A i, j \in Reqs :
        ( /\ Hashed(i) /\ Hashed(j)
          /\ HeaderValues(rq[i].req.headers, H) = {V1}
          /\ DiffersOnlyIn(i, j, {H}) )
        => /\ HeaderValues(rq[j].req.headers, H) = {}
                => rq[i].hash = rq[j].hash
           /\ ( /\ HeaderValues(rq[j].req.headers, H) # {}
                /\ V1 \notin HeaderValues(rq[j].req.headers, H) )
                => rq[i].hash # rq[j].hash

\* C20: with header H configured as ignored-with-value V1, a request
\* carrying H = V1 is fingerprinted as if H were absent, and the otherwise
\* identical request carrying H = V2, V2 other than V1, keeps H in the hash
\* and gets a different fingerprint.
C20_ValueSpecificExclusion ==
    /\ config = IgnoreValueConfig => ValueExcluded("x-request-id", "123")
    /\ \A p \in config.ignored_header_values :
         ( /\ ~config.ignore_all_headers
           /\ p[1] \notin config.ignored_req_headers )
         => ValueExcluded(p[1], p[2])

\* x-request-id is ignored with value 123: a request with x-request-id 456
\* that followed one with 123 got another fingerprint and ran the handler
C20_Witness ==
    \E i, j \in Reqs :
        /\ config = IgnoreValueConfig
        /\ rq[i].req = Tagged({"123"}, "body A")
        /\ rq[j].req = Tagged({"456"}, "body A")
        /\ Sequential(i, j)
        /\ Cached(i)
        /\ rq[i].hash # rq[j].hash
        /\ Done(j) /\ rq[j].lookup = "miss" /\ rq[j].invoked = 1

\* x-request-id is ignored with value 123: a request without the header was
\* replayed the response stored by one with x-request-id 123
C20_AbsentReached ==
    \E i, j \in Reqs :
        /\ config = IgnoreValueConfig
        /\ rq[i].req = Tagged({"123"}, "body A")
        /\ rq[j].req = Tagged({}, "body A")
        /\ Sequential(i, j)
        /\ Cached(i)
        /\ ReplayOf(j, rq[i].bytes)

Replayed(i) == rq[i].lookup = "hit" /\ rq[i].invoked = 0

WriteIssued(i) == rq[i].invoked = 1 /\ rq[i].wrote # "none"

NotCached(i) == rq[i].invoked = 1 /\ rq[i].wrote = "none"

Terminal(i) == Done(i) /\ (Replayed(i) \/ WriteIssued(i) \/ NotCached(i))

\* C22: when every store call and every call of the inner service returns,
\* every request that came in reaches a terminal state (replayed, write
\* issued, or not cached) and call returns a result.
C22_Terminates ==
    \A i \in Reqs : (rq[i].pc # "idle") ~> Terminal(i)

\* both requests have returned, one replayed and one after its write
C22_Witness ==
    \E i, j \in Reqs :
        /\ Terminal(i) /\ Replayed(i)
        /\ Terminal(j) /\ WriteIssued(j)

(***************************************************************************)
(* C23.  The order of the steps of one request.                            *)
(***************************************************************************)
\* the inner service returned a response that is to be stored
OnCachedPath(i) ==
    /\ rq[i].invoked = 1
    /\ rq[i].hres.ok
    /\ IsSome(rq[i].hash)
    /\ IsCacheable(rq[i].hres.res.status, config)

\* C23: within one request the store lookup has completed before the inner
\* service is called, and on the cached path the store write is issued after
\* the inner service has returned and has completed, with or without an
\* error, before the response is returned.
C23_OrderWithinRequest ==
    \A i \in Reqs :
        /\ rq[i].pc = "lookup"
           => rq[i].invoked = 0 /\ rq[i].got = "none" /\ rq[i].wrote = "none"
        /\ (IsSome(rq[i].hash) /\ (rq[i].pc = "call" \/ rq[i].invoked = 1))
           => /\ rq[i].got # "none"
              /\ rq[i].lookup \in {"miss", "error"}
        /\ rq[i].pc = "update" => OnCachedPath(i) /\ rq[i].wrote = "none"
        /\ rq[i].wrote # "none" => OnCachedPath(i) /\ Done(i)
        /\ (Done(i) /\ OnCachedPath(i))
           => rq[i].wrote \in {"ok", "error"} /\ rq[i].ret.ok

\* one request returned after its write succeeded and one after its write
\* failed, each having missed in the store first
C23_Witness ==
    \E i, j \in Reqs :
        /\ Done(i) /\ OnCachedPath(i) /\ rq[i].wrote = "ok"
        /\ rq[i].lookup = "miss"
        /\ Done(j) /\ OnCachedPath(j) /\ rq[j].wrote = "error"
        /\ rq[j].lookup \in {"miss", "error"}

(***************************************************************************)
(* C24.  The replay path and the store.                                    *)
(***************************************************************************)
\* C24: the step that serves a request from the store leaves the store as it
\* is, bytes and remaining time of every field, and the request returns
\* without a store write: replaying an entry does not renew its expiry.
C24_ReplayLeavesStore ==
    [][ \A i \in Reqs :
          (rq[i].pc = "lookup" /\ rq'[i].lookup = "hit")
          => /\ store' = store
             /\ rq'[i].pc = "done"
             /\ rq'[i].wrote = "none"
             /\ rq'[i].invoked = 0 ]_vars

\* a request was replayed from a field whose time had partly run, and the
\* field is still live with less than the ttl of its write left
C24_Witness ==
    \E i, j \in Reqs :
        /\ Cached(i) /\ SameKey(i, j) /\ i \in rq[j].after
        /\ Done(j) /\ rq[j].lookup = "hit" /\ rq[j].wrote = "none"
        /\ IsSome(Held(store, rq[j].session, Unwrap(rq[j].hash)))
        /\ store[<<rq[j].session, Unwrap(rq[j].hash)>>].ttl < rq[i].wttl

(***************************************************************************)
(* C25.  An error of the inner service.                                    *)
(***************************************************************************)
\* the inner service answered request i with an error
HandlerFailed(i) == rq[i].invoked = 1 /\ ~rq[i].hres.ok

\* a request other than i and j stored a response under the key of i
StoredByAnother(i, j) ==
    \E w \in Reqs \ {i, j} : rq[w].wrote = "ok" /\ SameKey(w, i)

\* C25: when the inner service returns an error, call returns that error and
\* makes no store write: the step leaves the store as it is, and a later
\* request of the same session with the same fingerprint, nothing else having
\* stored a response under the key, misses and calls the inner service again.
C25_HandlerErrorNotCached ==
    /\ [] ( \A i \in Reqs :
              HandlerFailed(i)
              => /\ Done(i)
                 /\ rq[i].ret = rq[i].hres
                 /\ ~rq[i].ret.ok
                 /\ rq[i].wrote = "none" )
    /\ [] ( \A i, j \in Reqs :
              ( /\ HandlerFailed(i) /\ SameKey(i, j) /\ i \in rq[j].after
                /\ ~StoredByAnother(i, j)
                /\ rq[j].pc \notin {"idle", "lookup"} )
              => /\ rq[j].lookup # "hit"
                 /\ rq[j].held = None
                 /\ (rq[j].pc = "call" \/ rq[j].invoked = 1) )
    /\ [][ \A i \in Reqs :
             (rq[i].invoked = 0 /\ rq'[i].invoked = 1 /\ ~rq'[i].hres.ok)
             => store' = store ]_vars

\* the inner service failed a keyed request, which returned the error, and
\* the same request sent again afterwards called the inner service and got a
\* response
C25_Witness ==
    \E i, j \in Reqs :
        /\ HandlerFailed(i) /\ Done(i) /\ ~rq[i].ret.ok
        /\ SameKey(i, j) /\ i \in rq[j].after
        /\ rq[j].lookup = "miss"
        /\ Done(j) /\ rq[j].invoked = 1 /\ rq[j].hres.ok /\ rq[j].wrote = "ok"

=============================================================================
